---------------------------- MODULE Spec2Model ----------------------------
(***************************************************************************)
(* Model of the cart / cart-search consistency script                      *)
(* (forresttanaka/encoded-cart-tests).                                     *)
(*                                                                         *)
(*   main            the orchestrator: readKeyfile, getSearchIds,          *)
(*                   getWriteableCartObject, cart.elements = itemIds,      *)
(*                   writeCart, searchCart, compareCarts, console.log      *)
(*   compareCarts    the sorted positional comparator                      *)
(*   keypairToAuth   the Basic authorization header                        *)
(*                                                                         *)
(* JavaScript values are tagged records [t, v]; strings that the code      *)
(* orders or encodes are sequences of character codes.  The server is the  *)
(* environment: every response the HTTP layer can deliver is drawn with \E.*)
(***************************************************************************)
EXTENDS Integers, Sequences, FiniteSets

VARIABLES
    pc,            \* position of main
    cartArg,       \* program.cart: the cart named on the command line
    itemIds,       \* const itemIds       (line 159)
    cart,          \* const cart          (line 160), mutated at line 161
    updatedCart,   \* const updatedCart   (line 162)
    searchedCart,  \* const searchedCart  (line 163)
    differences,   \* const differences   (line 164)
    inflight,      \* fetch calls whose promise has not settled yet
    requests,      \* every HTTP request issued so far, in order
    responses,     \* what each fetch settled with, in order
    logs,          \* the lines written by the .catch handlers, in order
    report,        \* the result lines written by main (lines 166, 168)
    serverCart,    \* the element list the server stores for the cart cartArg
    cart0,         \* compareCarts: first argument
    cart1,         \* compareCarts: second argument
    cmpOut,        \* compareCarts: returned value
    key,           \* keypairToAuth: key
    secret,        \* keypairToAuth: secret
    auth,          \* keypairToAuth: returned header value
    decoded        \* what a Basic-auth receiver recovers from auth

vars == <<pc, cartArg, itemIds, cart, updatedCart, searchedCart, differences,
          inflight, requests, responses, logs, report, serverCart,
          cart0, cart1, cmpOut, key, secret, auth, decoded>>

mainVars == <<pc, cartArg, itemIds, cart, updatedCart, searchedCart,
              differences, inflight, requests, responses, logs, report,
              serverCart>>
cmpVars == <<cart0, cart1, cmpOut>>
authVars == <<key, secret, auth, decoded>>

-----------------------------------------------------------------------------
(* Bounds *)

\* longest identifier list given to compareCarts on its own
MaxLen == 3
\* longest identifier list / @graph a server response carries in a run of main
MaxItems == 1
\* longest key and longest secret given to keypairToAuth
MaxStr == 2

-----------------------------------------------------------------------------
(* JavaScript values *)

Undef == [t |-> "undefined", v |-> <<>>]
JSFalse == [t |-> "false", v |-> <<>>]
TypeError == [t |-> "TypeError", v |-> <<>>]
Arr(s) == [t |-> "array", v |-> s]
Str(s) == [t |-> "string", v |-> s]
Obj(r) == [t |-> "object", v |-> r]

RECURSIVE SeqsOfLen(_, _)
SeqsOfLen(S, n) ==
    IF n = 0 THEN {<<>>}
    ELSE {Append(s, x) : s \in SeqsOfLen(S, n - 1), x \in S}

SeqsUpTo(S, n) == UNION {SeqsOfLen(S, k) : k \in 0..n}

\* "/a", "/b", "/c" as character codes
Ids == {<<47, 97>>, <<47, 98>>, <<47, 99>>}

-----------------------------------------------------------------------------
(* compareCarts *)

\* a < b on JavaScript strings: lexicographic on the code units
RECURSIVE StrLess(_, _)
StrLess(a, b) ==
    IF b = <<>> THEN FALSE
    ELSE IF a = <<>> THEN TRUE
    ELSE IF Head(a) < Head(b) THEN TRUE
    ELSE IF Head(a) > Head(b) THEN FALSE
    ELSE StrLess(Tail(a), Tail(b))

\* one element put into an ascending list, after every element that is not
\* greater (the comparator of _.sortBy falls back on the original index)
RECURSIVE InsertSorted(_, _)
InsertSorted(x, s) ==
    IF s = <<>> THEN <<x>>
    ELSE IF StrLess(x, Head(s)) THEN <<x>> \o s
    ELSE <<Head(s)>> \o InsertSorted(x, Tail(s))

RECURSIVE SortFrom(_, _, _)
SortFrom(s, i, acc) ==
    IF i > Len(s) THEN acc ELSE SortFrom(s, i + 1, InsertSorted(s[i], acc))

\* faulty variant: the list sorted the other way round
sortByDescending(s) ==
    LET asc == SortFrom(s, 1, <<>>)
    IN  [i \in 1..Len(asc) |-> asc[Len(asc) + 1 - i]]

\* _.sortBy(list) with the identity iteratee: a new list, ascending, stable
sortBy(s) == SortFrom(s, 1, <<>>)

\* sorted0.filter((cart0Item, index) => cart0Item !== sorted1[index])
RECURSIVE FilterDiffer(_, _, _)
FilterDiffer(s0, s1, i) ==
    IF i > Len(s0) THEN <<>>
    ELSE (IF s0[i] # s1[i] THEN <<s0[i]>> ELSE <<>>)
         \o FilterDiffer(s0, s1, i + 1)

\* faulty variant: only the first list is sorted
compareCartsSecondUnsorted(c0, c1) ==
    IF c0 = Undef \/ c1 = Undef THEN TypeError
    ELSE IF Len(c0.v) = Len(c1.v)
         THEN Arr(FilterDiffer(sortBy(c0.v), c1.v, 1))
         ELSE JSFalse

\* faulty variant: an undefined list counts as a size mismatch
compareCartsUndefinedTolerated(c0, c1) ==
    IF c0 = Undef \/ c1 = Undef THEN JSFalse
    ELSE IF Len(c0.v) = Len(c1.v)
         THEN Arr(FilterDiffer(sortBy(c0.v), sortBy(c1.v), 1))
         ELSE JSFalse

compareCarts(c0, c1) ==
    IF c0 = Undef \/ c1 = Undef THEN TypeError    \* undefined.length
    ELSE IF Len(c0.v) = Len(c1.v)
         THEN Arr(FilterDiffer(sortBy(c0.v), sortBy(c1.v), 1))
         ELSE JSFalse

-----------------------------------------------------------------------------
(* keypairToAuth *)

\* the UTF-8 bytes of one character of the Basic Multilingual Plane
UTF8(c) ==
    IF c < 128 THEN <<c>>
    ELSE IF c < 2048 THEN <<192 + (c \div 64), 128 + (c % 64)>>
    ELSE <<224 + (c \div 4096), 128 + ((c \div 64) % 64), 128 + (c % 64)>>

\* the characters encodeURIComponent leaves alone: A-Z a-z 0-9 - _ . ! ~ * ' ( )
Unreserved(c) ==
    \/ c \in 65..90
    \/ c \in 97..122
    \/ c \in 48..57
    \/ c \in {45, 95, 46, 33, 126, 42, 39, 40, 41}

HexDigit(n) == IF n < 10 THEN 48 + n ELSE 55 + n

HexVal(c) ==
    IF c \in 48..57 THEN c - 48
    ELSE IF c \in 65..70 THEN c - 55
    ELSE IF c \in 97..102 THEN c - 87
    ELSE -1

PercentEscape(b) == <<37, HexDigit(b \div 16), HexDigit(b % 16)>>

RECURSIVE EscapeBytes(_)
EscapeBytes(b) ==
    IF b = <<>> THEN <<>> ELSE PercentEscape(Head(b)) \o EscapeBytes(Tail(b))

\* encodeURIComponent(str): every other character becomes the %XX escapes of
\* its UTF-8 bytes
RECURSIVE encodeURIComponent(_)
encodeURIComponent(s) ==
    IF s = <<>> THEN <<>>
    ELSE (IF Unreserved(Head(s)) THEN <<Head(s)>>
          ELSE EscapeBytes(UTF8(Head(s))))
         \o encodeURIComponent(Tail(s))

\* unescape(str): %XX becomes the character with code XX, %uXXXX the
\* character with code XXXX, anything else stays
RECURSIVE unescape(_)
unescape(s) ==
    IF s = <<>> THEN <<>>
    ELSE IF /\ Head(s) = 37
            /\ Len(s) >= 6
            /\ s[2] = 117
            /\ \A i \in 3..6 : HexVal(s[i]) >= 0
         THEN <<4096 * HexVal(s[3]) + 256 * HexVal(s[4])
                + 16 * HexVal(s[5]) + HexVal(s[6])>>
              \o unescape(SubSeq(s, 7, Len(s)))
    ELSE IF /\ Head(s) = 37
            /\ Len(s) >= 3
            /\ HexVal(s[2]) >= 0
            /\ HexVal(s[3]) >= 0
         THEN <<16 * HexVal(s[2]) + HexVal(s[3])>>
              \o unescape(SubSeq(s, 4, Len(s)))
    ELSE <<Head(s)>> \o unescape(Tail(s))

\* Buffer.from(str): no encoding argument, so the string is encoded as UTF-8
RECURSIVE BufferFrom(_)
BufferFrom(s) ==
    IF s = <<>> THEN <<>> ELSE UTF8(Head(s)) \o BufferFrom(Tail(s))

B64Char(i) ==
    IF i < 26 THEN 65 + i
    ELSE IF i < 52 THEN 97 + (i - 26)
    ELSE IF i < 62 THEN 48 + (i - 52)
    ELSE IF i = 62 THEN 43
    ELSE 47

\* buffer.toString('base64'): three bytes to four characters, '=' padding
RECURSIVE toBase64(_)
toBase64(b) ==
    IF Len(b) = 0 THEN <<>>
    ELSE IF Len(b) = 1
         THEN <<B64Char(b[1] \div 4), B64Char((b[1] % 4) * 16), 61, 61>>
    ELSE IF Len(b) = 2
         THEN <<B64Char(b[1] \div 4),
                B64Char((b[1] % 4) * 16 + (b[2] \div 16)),
                B64Char((b[2] % 16) * 4), 61>>
    ELSE <<B64Char(b[1] \div 4),
           B64Char((b[1] % 4) * 16 + (b[2] \div 16)),
           B64Char((b[2] % 16) * 4 + (b[3] \div 64)),
           B64Char(b[3] % 64)>>
         \o toBase64(SubSeq(b, 4, Len(b)))

\* "Basic "
BasicPrefix == <<66, 97, 115, 105, 99, 32>>

\* `Basic ${Buffer.from(unescape(encodeURIComponent(`${key}:${secret}`)))
\*            .toString('base64')}`
keypairToAuth(k, s) ==
    BasicPrefix
    \o toBase64(BufferFrom(unescape(encodeURIComponent(k \o <<58>> \o s))))

(* The receiver of the header: what the server does with it. *)

B64Val(c) ==
    IF c \in 65..90 THEN c - 65
    ELSE IF c \in 97..122 THEN c - 97 + 26
    ELSE IF c \in 48..57 THEN c - 48 + 52
    ELSE IF c = 43 THEN 62
    ELSE 63

RECURSIVE fromBase64(_)
fromBase64(s) ==
    IF Len(s) < 4 THEN <<>>
    ELSE LET a == B64Val(s[1])
             b == B64Val(s[2])
             c == B64Val(s[3])
             d == B64Val(s[4])
             b1 == a * 4 + (b \div 16)
             b2 == (b % 16) * 16 + (c \div 4)
             b3 == (c % 4) * 64 + d
         IN  IF s[3] = 61 THEN <<b1>>
             ELSE IF s[4] = 61 THEN <<b1, b2>>
             ELSE <<b1, b2, b3>> \o fromBase64(SubSeq(s, 5, Len(s)))

RECURSIVE UTF8Decode(_)
UTF8Decode(b) ==
    IF b = <<>> THEN <<>>
    ELSE IF b[1] < 128 THEN <<b[1]>> \o UTF8Decode(Tail(b))
    ELSE IF b[1] < 224
         THEN <<(b[1] - 192) * 64 + (b[2] - 128)>>
              \o UTF8Decode(SubSeq(b, 3, Len(b)))
    ELSE <<(b[1] - 224) * 4096 + (b[2] - 128) * 64 + (b[3] - 128)>>
         \o UTF8Decode(SubSeq(b, 4, Len(b)))

\* <<text before the first ':', text after it>>
SplitFirstColon(s) ==
    LET at == {i \in 1..Len(s) : s[i] = 58}
    IN  IF at = {} THEN <<s, <<>>>>
        ELSE LET i == CHOOSE j \in at : \A m \in at : j <= m
             IN  <<SubSeq(s, 1, i - 1), SubSeq(s, i + 1, Len(s))>>

DecodeBasic(a) ==
    SplitFirstColon(UTF8Decode(fromBase64(SubSeq(a, Len(BasicPrefix) + 1, Len(a)))))

\* 'a', e-acute (two UTF-8 bytes), the euro sign (three UTF-8 bytes); a key
\* holds no ':' (it would end the user-id of any Basic header), a secret may
KeyChars == {97, 233, 8364}
SecretChars == KeyChars \cup {58}

-----------------------------------------------------------------------------
(* The HTTP layer: what a fetch call can settle with *)

\* the identifiers and lists the server's responses carry in a run of main
MainIds == {<<47, 97>>, <<47, 98>>}
IdLists == SeqsUpTo(MainIds, MaxItems)

\* the carts the server knows, by the name their /carts/<name> address holds
CartNames == {"c1", "c2"}
\* element lists a cart holds before the run; "/c" is in no search result
PriorLists == {Arr(<<>>), Arr(<< <<47, 99>> >>)}
CartTitles == {Str("mine"), Str("yours")}

Graph(g) == [f \in {"@graph"} |-> g]
Item(id) == [f \in {"@id"} |-> id]
ItemsOf(l) == Arr([i \in 1..Len(l) |-> Item(l[i])])

\* fetch(): rejected (network error), or a response that is not ok, or an ok
\* response whose body is no JSON, or an ok response with a JSON body
Outcome(k, b) == [kind |-> k, body |-> b]
Failures == {Outcome("neterr", Undef), Outcome("notok", Undef),
             Outcome("badjson", Undef)}

\* GET /search/ and GET /cart-search/: the envelope, or a body without @graph
SearchOutcomes ==
    Failures \cup {Outcome("json", Graph(Undef))}
             \cup {Outcome("json", Graph(ItemsOf(l))) : l \in IdLists}

\* GET <cart>?frame=edit: the edit frame of the cart; identifier is optional
CartOutcomes(stored) ==
    Failures \cup
    {Outcome("json", Obj([identifier |-> id, elements |-> stored, name |-> n])) :
        id \in {Undef} \cup {Str(c) : c \in CartNames}, n \in CartTitles}

\* PUT /carts/<name>: the envelope with the updated cart in @graph[0]
WriteOutcomes ==
    Failures \cup {Outcome("json", Graph(Undef)), Outcome("json", Graph(Arr(<<>>))),
                   Outcome("json", Graph(Arr(<<[elements |-> Undef]>>)))}
             \cup {Outcome("json", Graph(Arr(<<[elements |-> Arr(l)]>>))) :
                      l \in IdLists}

(* Promises *)

Fulfilled(x) == [state |-> "fulfilled", value |-> x, log |-> <<>>]
Rejected == [state |-> "rejected", value |-> Undef, log |-> <<>>]

\* the promise fetch returns
Fetch(o) == IF o.kind = "neterr" THEN Rejected ELSE Fulfilled(o)

\* .then((response) => { if (response.ok) return response.json(); throw ... })
thenJson(p) ==
    IF p.state = "rejected" THEN p
    ELSE IF p.value.kind = "json" THEN Fulfilled(p.value.body)
    ELSE Rejected

\* .then((results) => results['@graph'].map((result) => result['@id']))
thenIds(p) ==
    IF p.state = "rejected" THEN p
    ELSE LET g == p.value["@graph"]
         IN  IF g = Undef THEN Rejected
             ELSE Fulfilled(Arr([i \in 1..Len(g.v) |-> g.v[i]["@id"]]))

\* .then((results) => results['@graph'][0].elements)
thenElements(p) ==
    IF p.state = "rejected" THEN p
    ELSE LET g == p.value["@graph"]
         IN  IF g = Undef THEN Rejected
             ELSE IF Len(g.v) = 0 THEN Rejected
             ELSE Fulfilled(g.v[1].elements)

\* faulty variant: no .catch at the end of the chain
catchNothing(p, line) == p

\* .catch((e) => { console.log(line, e); }): the handler returns undefined
catchLog(p, line) ==
    IF p.state = "rejected"
    THEN [state |-> "fulfilled", value |-> Undef, log |-> <<line>>]
    ELSE p

getSearchIds(o) == catchLog(thenIds(thenJson(Fetch(o))), "getSearchIds")

getWriteableCartObject(o) ==
    catchLog(thenJson(Fetch(o)), "getWriteableCartObject")

writeCart(o) == catchLog(thenElements(thenJson(Fetch(o))), "writeCart")

searchCart(o) == catchLog(thenIds(thenJson(Fetch(o))), "searchCart")

\* `${x}` in a template literal
ToString(x) == IF x = Undef THEN "undefined" ELSE x.v

\* JSON.stringify(object): a property whose value is undefined is left out
JSONstringify(o) ==
    [f \in {g \in DOMAIN o.v : o.v[g] # Undef} |-> o.v[f]]

\* the value of a property of a JSON body, undefined when it has none
Field(body, f) == IF f \in DOMAIN body THEN body[f] ELSE Undef

NoBody == <<>>
Request(fn, method, path, name, body) ==
    [fn |-> fn, method |-> method, path |-> path, cart |-> name,
     body |-> body, Authorization |-> auth]

-----------------------------------------------------------------------------
(* main *)

Crashed == {"crashed: readKeyfile", "crashed: await",
            "crashed: cart.elements = itemIds", "crashed: compareCarts"}

\* lines 156-157: the keyfile is read and parsed and the entry of program.key
\* is taken; a missing file, malformed JSON or a missing entry rejects main
ReadKeyfile ==
    /\ pc = "readKeyfile"
    /\ \/ pc' = "keypairToAuth"
       \/ pc' = "crashed: readKeyfile"
    /\ UNCHANGED <<cartArg, itemIds, cart, updatedCart, searchedCart,
                   differences, inflight, requests, responses, logs, report,
                   serverCart>>
    /\ UNCHANGED <<cmpVars, authVars>>

\* line 158
KeypairToAuth ==
    /\ pc = "keypairToAuth"
    /\ auth' = keypairToAuth(key, secret)
    /\ pc' = "call getSearchIds"
    /\ UNCHANGED <<cartArg, itemIds, cart, updatedCart, searchedCart,
                   differences, inflight, requests, responses, logs, report,
                   serverCart>>
    /\ UNCHANGED <<cmpVars, key, secret, decoded>>

\* a client function is called: its fetch is issued and main awaits it
Issue(at, req) ==
    /\ pc = "call " \o at
    /\ requests' = Append(requests, req)
    /\ inflight' = inflight \cup {at}
    /\ pc' = "await " \o at
    /\ UNCHANGED <<cartArg, itemIds, cart, updatedCart, searchedCart,
                   differences, responses, logs, report, serverCart>>
    /\ UNCHANGED <<cmpVars, authVars>>

\* the awaited promise settles with r and main goes on (a rejection would
\* be thrown by the await and reject main)
Settle(at, o, r, next) ==
    /\ pc = "await " \o at
    /\ at \in inflight
    /\ inflight' = inflight \ {at}
    /\ responses' = Append(responses, o)
    /\ logs' = logs \o r.log
    /\ pc' = IF r.state = "rejected" THEN "crashed: await" ELSE next
    /\ UNCHANGED <<cartArg, differences, requests, report>>
    /\ UNCHANGED <<cmpVars, authVars>>

\* line 159, lines 16-23: GET {host}/search/?{query}&limit=all
CallGetSearchIds ==
    Issue("getSearchIds",
          Request("getSearchIds", "GET", "search", "", NoBody))

\* line 159, lines 24-34
ReturnGetSearchIds ==
    \E o \in SearchOutcomes :
        LET r == getSearchIds(o)
        IN  /\ Settle("getSearchIds", o, r, "call getWriteableCartObject")
            /\ itemIds' = r.value
            /\ UNCHANGED <<cart, updatedCart, searchedCart, serverCart>>

\* faulty variant: the cart read is started without awaiting the search
CallGetWriteableCartObjectUnawaited ==
    /\ pc \in {"await getSearchIds", "call getWriteableCartObject"}
    /\ requests' = Append(requests,
          Request("getWriteableCartObject", "GET", "carts", cartArg, NoBody))
    /\ inflight' = inflight \cup {"getWriteableCartObject"}
    /\ pc' = "await getWriteableCartObject"
    /\ UNCHANGED <<cartArg, itemIds, cart, updatedCart, searchedCart,
                   differences, responses, logs, report, serverCart>>
    /\ UNCHANGED <<cmpVars, authVars>>

\* line 160, lines 44-51: GET {host}{cartAtId}?frame=edit
CallGetWriteableCartObject ==
    Issue("getWriteableCartObject",
          Request("getWriteableCartObject", "GET", "carts", cartArg, NoBody))

\* line 160, lines 52-59
ReturnGetWriteableCartObject ==
    \E o \in CartOutcomes(serverCart) :
        LET r == getWriteableCartObject(o)
        IN  /\ Settle("getWriteableCartObject", o, r, "cart.elements = itemIds")
            /\ cart' = r.value
            /\ UNCHANGED <<itemIds, updatedCart, searchedCart, serverCart>>

\* faulty variant: the list is added to the elements the cart holds
WithElementsMerged(c, list) ==
    Obj([c.v EXCEPT !.elements =
            IF list = Undef THEN @ ELSE Arr(@.v \o list.v)])

\* the object after  object.elements = list
WithElements(c, list) == Obj([c.v EXCEPT !.elements = list])

\* faulty variant: a missing cart is replaced by an empty one
AssignElementsGuarded ==
    /\ pc = "cart.elements = itemIds"
    /\ cart' = IF cart = Undef
               THEN Obj([identifier |-> Undef, elements |-> itemIds,
                         name |-> Undef])
               ELSE WithElements(cart, itemIds)
    /\ pc' = "call writeCart"
    /\ UNCHANGED <<cartArg, itemIds, updatedCart, searchedCart, differences,
                   inflight, requests, responses, logs, report, serverCart>>
    /\ UNCHANGED <<cmpVars, authVars>>

\* line 161: cart.elements = itemIds; a TypeError when cart is undefined,
\* which nothing catches
AssignElements ==
    /\ pc = "cart.elements = itemIds"
    /\ IF cart = Undef
       THEN /\ pc' = "crashed: cart.elements = itemIds"
            /\ cart' = cart
       ELSE /\ pc' = "call writeCart"
            /\ cart' = WithElements(cart, itemIds)
    /\ UNCHANGED <<cartArg, itemIds, updatedCart, searchedCart, differences,
                   inflight, requests, responses, logs, report, serverCart>>
    /\ UNCHANGED <<cmpVars, authVars>>

\* line 162, lines 71-79: PUT {host}/carts/{cart.identifier}, the body
\* JSON.stringify(cart)
CallWriteCart ==
    Issue("writeCart",
          Request("writeCart", "PUT", "carts", ToString(cart.v.identifier),
                  JSONstringify(cart)))

\* line 162, lines 80-90; an ok response means the server has replaced what
\* it stores for the cart the PUT names by the body
ReturnWriteCart ==
    \E o \in WriteOutcomes :
        LET r == writeCart(o)
            put == requests[Len(requests)]
        IN  /\ Settle("writeCart", o, r, "call searchCart")
            /\ updatedCart' = r.value
            /\ serverCart' =
                 IF o.kind \in {"json", "badjson"} /\ put.cart = cartArg
                 THEN Field(put.body, "elements")
                 ELSE serverCart
            /\ UNCHANGED <<itemIds, cart, searchedCart>>

\* line 163, lines 104-111: GET {host}/cart-search/?cart={cartId}&limit=all
CallSearchCart ==
    Issue("searchCart",
          Request("searchCart", "GET", "cart-search", cartArg, NoBody))

\* line 163, lines 112-121
ReturnSearchCart ==
    \E o \in SearchOutcomes :
        LET r == searchCart(o)
        IN  /\ Settle("searchCart", o, r, "compareCarts")
            /\ searchedCart' = r.value
            /\ UNCHANGED <<itemIds, cart, updatedCart, serverCart>>

\* line 164: compareCarts(updatedCart, searchedCart); reading .length of
\* undefined is a TypeError, which nothing catches
Compare ==
    /\ pc = "compareCarts"
    /\ cart0' = updatedCart
    /\ cart1' = searchedCart
    /\ cmpOut' = compareCarts(updatedCart, searchedCart)
    /\ IF cmpOut' = TypeError
       THEN /\ pc' = "crashed: compareCarts"
            /\ differences' = differences
       ELSE /\ pc' = "console.log"
            /\ differences' = cmpOut'
    /\ UNCHANGED <<cartArg, itemIds, cart, updatedCart, searchedCart,
                   inflight, requests, responses, logs, report, serverCart>>
    /\ UNCHANGED authVars

\* lines 165-169
Report ==
    /\ pc = "console.log"
    /\ report' = Append(report,
          IF differences = JSFalse
          THEN [fmt |-> "Different contents Cart size: %s -- Search size %s",
                args |-> <<Len(updatedCart.v), Len(searchedCart.v)>>]
          ELSE [fmt |-> "Differences: %o", args |-> <<differences>>])
    /\ pc' = "done"
    /\ UNCHANGED <<cartArg, itemIds, cart, updatedCart, searchedCart,
                   differences, inflight, requests, responses, logs,
                   serverCart>>
    /\ UNCHANGED <<cmpVars, authVars>>

\* the server takes the Authorization header apart
ServerDecodes ==
    /\ pc = "call getSearchIds"
    /\ decoded = <<>>
    /\ decoded' = DecodeBasic(auth)
    /\ UNCHANGED <<mainVars, cmpVars, key, secret, auth>>

-----------------------------------------------------------------------------
(* Specifications *)

NotCompared ==
    /\ cart0 = Undef
    /\ cart1 = Undef
    /\ cmpOut = Undef

\* a run of main: the command line and the keyfile are given, the cart holds
\* some element list on the server
Init ==
    /\ pc = "readKeyfile"
    /\ cartArg \in CartNames
    /\ itemIds = Undef
    /\ cart = Undef
    /\ updatedCart = Undef
    /\ searchedCart = Undef
    /\ differences = Undef
    /\ inflight = {}
    /\ requests = <<>>
    /\ responses = <<>>
    /\ logs = <<>>
    /\ report = <<>>
    /\ serverCart \in PriorLists
    /\ NotCompared
    /\ key = <<97>>
    /\ secret = <<97>>
    /\ auth = <<>>
    /\ decoded = <<>>

Next ==
    \/ ReadKeyfile
    \/ KeypairToAuth
    \/ CallGetSearchIds
    \/ ReturnGetSearchIds
    \/ CallGetWriteableCartObject
    \/ ReturnGetWriteableCartObject
    \/ AssignElements
    \/ CallWriteCart
    \/ ReturnWriteCart
    \/ CallSearchCart
    \/ ReturnSearchCart
    \/ Compare
    \/ Report

Spec == Init /\ [][Next]_vars

\* every request issued is answered or fails, and main is then resumed
FairSpec == Spec /\ WF_vars(Next)

\* compareCarts on its own: main from line 164 on, for any two identifier
\* lists as updatedCart and searchedCart
InitCmp ==
    /\ pc = "compareCarts"
    /\ cartArg = "c1"
    /\ itemIds = Undef
    /\ cart = Undef
    /\ updatedCart \in {Arr(l) : l \in SeqsUpTo(Ids, MaxLen)}
    /\ searchedCart \in {Arr(l) : l \in SeqsUpTo(Ids, MaxLen)}
    /\ differences = Undef
    /\ inflight = {}
    /\ requests = <<>>
    /\ responses = <<>>
    /\ logs = <<>>
    /\ report = <<>>
    /\ serverCart = Arr(<<>>)
    /\ NotCompared
    /\ key = <<97>>
    /\ secret = <<97>>
    /\ auth = <<>>
    /\ decoded = <<>>

NextCmp ==
    \/ Compare
    \/ Report

SpecCmp == InitCmp /\ [][NextCmp]_vars

\* keypairToAuth on its own: main at line 158, for any key and secret of the
\* keyfile, and the server that receives the header
InitAuth ==
    /\ pc = "keypairToAuth"
    /\ cartArg = "c1"
    /\ itemIds = Undef
    /\ cart = Undef
    /\ updatedCart = Undef
    /\ searchedCart = Undef
    /\ differences = Undef
    /\ inflight = {}
    /\ requests = <<>>
    /\ responses = <<>>
    /\ logs = <<>>
    /\ report = <<>>
    /\ serverCart = Arr(<<>>)
    /\ NotCompared
    /\ key \in SeqsUpTo(KeyChars, MaxStr)
    /\ secret \in SeqsUpTo(SecretChars, MaxStr)
    /\ auth = <<>>
    /\ decoded = <<>>

NextAuth ==
    \/ KeypairToAuth
    \/ ServerDecodes

SpecAuth == InitAuth /\ [][NextAuth]_vars

-----------------------------------------------------------------------------
(* Properties *)

Clients == <<"getSearchIds", "getWriteableCartObject", "writeCart",
             "searchCart">>
Endpoints == <<[method |-> "GET", path |-> "search"],
               [method |-> "GET", path |-> "carts"],
               [method |-> "PUT", path |-> "carts"],
               [method |-> "GET", path |-> "cart-search"]>>

Issued(fn) == {i \in 1..Len(requests) : requests[i].fn = fn}

\* C1: the requests of a run are issued in the order search GET, cart GET,
\* cart PUT, cart-search GET; a request is issued only when every earlier one
\* has settled, so at most one request is in flight at any time.
C1_SequentialRequests ==
    /\ Cardinality(inflight) <= 1
    /\ Len(requests) <= Len(Clients)
    /\ \A i \in 1..Len(requests) :
          /\ requests[i].fn = Clients[i]
          /\ requests[i].method = Endpoints[i].method
          /\ requests[i].path = Endpoints[i].path
    /\ Len(requests) = Len(responses) + Cardinality(inflight)
    /\ inflight # {} => inflight = {requests[Len(requests)].fn}

\* C1 witness: a run that issued all four requests and ended
C1_Witness ==
    /\ pc = "done"
    /\ Len(requests) = 4
    /\ Len(responses) = 4
    /\ inflight = {}

Range(s) == {s[i] : i \in 1..Len(s)}

\* the ascending arrangement of s, by rank: position i holds the element
\* with fewer than i elements below it and at least i elements not above it
RefSorted(s) ==
    [i \in 1..Len(s) |->
        CHOOSE x \in Range(s) :
            /\ Cardinality({j \in 1..Len(s) : StrLess(s[j], x)}) < i
            /\ i <= Cardinality({j \in 1..Len(s) : ~StrLess(x, s[j])})]

\* the reference comparator: false when the lengths differ, else the elements
\* of sorted(a) that differ from sorted(b) at their position, in that order
RefCompare(a, b) ==
    IF Len(a) # Len(b) THEN JSFalse
    ELSE LET ra == RefSorted(a)
             rb == RefSorted(b)
             D == {i \in 1..Len(a) : ra[i] # rb[i]}
         IN  Arr([k \in 1..Cardinality(D) |->
                    ra[CHOOSE i \in D : Cardinality({j \in D : j <= i}) = k]])

Compared == pc \in {"console.log", "done"}

\* C2: compareCarts(seqA, seqB) equals the reference comparator for all
\* identifier sequences: false exactly when the lengths differ, otherwise the
\* elements of sorted(seqA) that differ from sorted(seqB) at the same
\* position, in sorted order; with the three examples of the specification.
C2_CompareCartsIsReference ==
    Compared =>
        /\ cmpOut = RefCompare(cart0.v, cart1.v)
        /\ differences = cmpOut
        /\ (cmpOut = JSFalse) <=> (Len(cart0.v) # Len(cart1.v))
        /\ (cart0.v = <<<<47, 97>>, <<47, 98>>>>
              /\ cart1.v = <<<<47, 98>>, <<47, 97>>>>) => cmpOut = Arr(<<>>)
        /\ (cart0.v = <<<<47, 97>>>>
              /\ cart1.v = <<<<47, 97>>, <<47, 98>>>>) => cmpOut = JSFalse
        /\ (cart0.v = <<<<47, 97>>, <<47, 99>>>>
              /\ cart1.v = <<<<47, 97>>, <<47, 98>>>>)
           => cmpOut = Arr(<<<<47, 99>>>>)

\* C2 witness: compare(["/c","/a"], ["/a","/b"]) returned ["/c"]
C2_Witness ==
    /\ pc = "done"
    /\ cart0 = Arr(<<<<47, 99>>, <<47, 97>>>>)
    /\ cart1 = Arr(<<<<47, 97>>, <<47, 98>>>>)
    /\ cmpOut = Arr(<<<<47, 99>>>>)

Count(s, x) == Cardinality({i \in 1..Len(s) : s[i] = x})
SameMultiset(a, b) == \A x \in Range(a) \cup Range(b) : Count(a, x) = Count(b, x)
NoDuplicates(s) == Cardinality(Range(s)) = Len(s)

\* C3 as stated: for two sequences of equal length compareCarts returns the
\* empty sequence if and only if they hold the same set of identifiers.
C3_EmptyIffSameSet ==
    (Compared /\ Len(cart0.v) = Len(cart1.v)) =>
        ((cmpOut = Arr(<<>>)) <=> (Range(cart0.v) = Range(cart1.v)))

\* C3 as amended: for two sequences of equal length compareCarts returns the
\* empty sequence if and only if each identifier occurs equally often in
\* both (one is a reordering of the other), whatever the order of either
\* input; for sequences without duplicates that is equality as sets.
C3_EmptyIffSameMultiset ==
    (Compared /\ Len(cart0.v) = Len(cart1.v)) =>
        /\ (cmpOut = Arr(<<>>)) <=> SameMultiset(cart0.v, cart1.v)
        /\ (NoDuplicates(cart0.v) /\ NoDuplicates(cart1.v)) =>
              ((cmpOut = Arr(<<>>)) <=> (Range(cart0.v) = Range(cart1.v)))

\* C3 witness: two different orders of the same identifiers compared empty
C3_Witness ==
    /\ pc = "done"
    /\ Len(cart0.v) = MaxLen
    /\ cart0.v # cart1.v
    /\ cart0.v # sortBy(cart0.v)
    /\ cart1.v # sortBy(cart1.v)
    /\ NoDuplicates(cart0.v)
    /\ Range(cart0.v) = Range(cart1.v)
    /\ cmpOut = Arr(<<>>)

\* whether the promise chain of client fn throws on outcome o
Throws(fn, o) ==
    IF o.kind # "json" THEN TRUE
    ELSE IF fn = "getWriteableCartObject" THEN FALSE
    ELSE IF o.body["@graph"] = Undef THEN TRUE
    ELSE fn = "writeCart" /\ Len(o.body["@graph"].v) = 0

Results == [getSearchIds |-> itemIds, getWriteableCartObject |-> cart,
            writeCart |-> updatedCart, searchCart |-> searchedCart]

AfterAwait == [getSearchIds |-> "call getWriteableCartObject",
               getWriteableCartObject |-> "cart.elements = itemIds",
               writeCart |-> "call searchCart",
               searchCart |-> "compareCarts"]

\* C4: when the fetch of one of the four client functions fails (network
\* error, response not ok, body that cannot be parsed, envelope from which
\* the result cannot be extracted), nothing is thrown to main: the function
\* logs one line, resolves to undefined, and main goes on to its next
\* statement.
C4_SoftFailure ==
    [][\A i \in 1..Len(Clients) :
          LET fn == Clients[i]
          IN  (/\ pc = "await " \o fn
               /\ Len(responses') = Len(responses) + 1
               /\ Throws(fn, responses'[Len(responses')]))
              => /\ Results'[fn] = Undef
                 /\ logs' = Append(logs, fn)
                 /\ pc' = AfterAwait[fn]]_vars

\* C4 witness: the search, the write and the cart search all failed in one
\* run, each logged once, and main reached the comparison
C4_Witness ==
    /\ pc = "compareCarts"
    /\ responses[1].kind = "notok"
    /\ responses[3].kind = "neterr"
    /\ responses[4].kind = "json"
    /\ logs = <<"getSearchIds", "writeCart", "searchCart">>
    /\ itemIds = Undef
    /\ updatedCart = Undef
    /\ searchedCart = Undef

CartReadFailed == Len(responses) >= 2 /\ cart = Undef

\* C5: when the cart read resolves to undefined, main crashes at
\* cart.elements = itemIds: no PUT and no cart-search request is ever sent,
\* what the server stores for the cart does not change, nothing is reported.
C5_FailedReadStopsBeforePut ==
    /\ [](CartReadFailed =>
            /\ pc \in {"cart.elements = itemIds",
                       "crashed: cart.elements = itemIds"}
            /\ Issued("writeCart") = {}
            /\ Issued("searchCart") = {}
            /\ Len(requests) = 2
            /\ inflight = {}
            /\ report = <<>>
            /\ differences = Undef)
    /\ [][CartReadFailed =>
            /\ pc' = "crashed: cart.elements = itemIds"
            /\ serverCart' = serverCart
            /\ requests' = requests
            /\ CartReadFailed']_vars

\* C5 witness: the cart read failed and main crashed at the assignment
C5_Witness ==
    /\ pc = "crashed: cart.elements = itemIds"
    /\ Len(responses) = 2
    /\ responses[2].kind = "notok"
    /\ cart = Undef
    /\ itemIds # Undef

\* C6: in a run that reaches the comparison, the two sequences compared are
\* the result of getSearchIds and the result of searchCart.
C6_ComparesDirectSearch ==
    (Compared /\ itemIds # Undef) =>
        /\ cart0 = itemIds
        /\ cart1 = searchedCart

\* C7: the cart read, the cart the PUT overwrites and the cart searched are
\* the cart named by --cart.
C7_SameCart ==
    \A i \in 1..Len(requests) :
        requests[i].fn \in {"getWriteableCartObject", "writeCart", "searchCart"}
            => requests[i].cart = cartArg

\* C8: base64-decoding the header of keypairToAuth(key, secret), decoding the
\* bytes as UTF-8 and splitting on the first ':' gives back (key, secret).
C8_AuthRoundTrip ==
    decoded # <<>> => decoded = <<key, secret>>

\* the round trip does hold for a key and a secret of ASCII characters
RoundTripOfAscii ==
    (decoded # <<>> /\ \A i \in 1..Len(key \o secret) : (key \o secret)[i] < 128)
        => decoded = <<key, secret>>

\* C9: the body of the PUT is the cart object the cart read returned with its
\* elements replaced by the result of the direct search: every other field is
\* sent as fetched, no field is added, and the earlier element list is
\* overwritten, not merged.
C9_PutBodyIsFetchedCartWithElements ==
    \A i \in Issued("writeCart") :
        LET body == requests[i].body
            fetched == responses[2].body.v
        IN  /\ \A f \in DOMAIN fetched \ {"elements"} :
                  Field(body, f) = fetched[f]
            /\ Field(body, "elements") = itemIds
            /\ DOMAIN body \subseteq DOMAIN fetched

\* C9 witness: a PUT sent for a cart that held ["/c"], with the search
\* result ["/b"] as its elements and the fetched name and identifier
C9_Witness ==
    /\ Issued("writeCart") # {}
    /\ responses[2].body.v.elements = Arr(<<<<47, 99>>>>)
    /\ itemIds = Arr(<<<<47, 98>>>>)
    /\ requests[3].body.elements = itemIds
    /\ requests[3].body.name = Str("yours")
    /\ requests[3].body.identifier = Str("c2")

Terminated == pc = "done" \/ pc \in Crashed

\* C10: given that every request is answered, every run ends; each of the
\* four requests is issued at most once; the run ends with exactly one
\* result line if and only if the cart read, the cart write and the cart
\* search all gave a value; a failed direct search alone does not stop the
\* run (the cart is written with the undefined list); a failed cart read,
\* write or cart search ends the run in a crash with no report.
C10_TerminatesReportsIffAllSucceed ==
    /\ <>Terminated
    /\ [](\A i \in 1..Len(Clients) : Cardinality(Issued(Clients[i])) <= 1)
    /\ [](Len(report) <= 1)
    /\ [](Terminated =>
            ((pc = "done" /\ Len(report) = 1)
               <=> (cart # Undef /\ updatedCart # Undef
                      /\ searchedCart # Undef)))
    /\ [](pc \in Crashed => report = <<>>)
    /\ []((Terminated /\ cart # Undef) =>
            \E i \in Issued("writeCart") :
                Field(requests[i].body, "elements") = itemIds)
    /\ []((Terminated /\ Len(responses) >= 2
             /\ (cart = Undef \/ updatedCart = Undef \/ searchedCart = Undef))
          => pc \in {"crashed: cart.elements = itemIds",
                     "crashed: compareCarts"})

\* C10 witness: the direct search failed, the other three requests
\* succeeded, and the run ended with one result line
C10_Witness ==
    /\ pc = "done"
    /\ itemIds = Undef
    /\ Len(requests) = 4
    /\ Len(report) = 1
    /\ Issued("writeCart") = {3}
    /\ Field(requests[3].body, "elements") = Undef

=============================================================================
